---- MODULE Spec2Model ----
(***************************************************************************)
(* A model of doximity/cookies: the encrypted-cookie store                 *)
(* (CookieEncryptor, JSONCookieEncoder, SecureCookieManager) and the       *)
(* cookie-backed session manager (CookieSessionManager).                   *)
(*                                                                         *)
(* Go strings are sequences of tokens (each token a TLA+ string), so the   *)
(* empty string is << >>.  The external primitives (PBKDF2 key derivation, *)
(* AES, HMAC, encoding/json, net.SplitHostPort, net/http cookies) are      *)
(* modelled symbolically: a ciphertext or digest is the token sequence     *)
(* naming the key and the data it was computed from, so that two of them   *)
(* are equal exactly when they were computed from the same inputs.         *)
(*                                                                         *)
(* A Go method is an operator that returns a record holding the value of   *)
(* everything the method could write through its pointers (its receiver,   *)
(* the cookie, the response, the output value) together with its results   *)
(* and the list of the calls it made.  The randomness Encrypt consumes is  *)
(* an explicit argument (iv).  Cookie names are names net/http accepts, so *)
(* that http.SetCookie always adds a header.                               *)
(***************************************************************************)
EXTENDS Integers, Sequences, FiniteSets, TLC

\* ------------------------------------------------------------------ bounds
\* Largest user id stored in a session value.
MaxUid == 1
\* Number of distinct initialization vectors the random source can draw.
MaxIV == 1
\* The key-stretching iteration count the encryptor is configured with.
Iterations == 1

\* --------------------------------------------------------------- constants
\* Key lengths asked of the key generator (bytes).
EncKeyLen == 32
SignKeyLen == 64

nil == "nil"
ErrNoCookie == "http.ErrNoCookie"
ErrInvalidSignature == "crypto.ErrInvalidSignature"
ErrKeySize == "aes.KeySizeError"
ErrUnsupportedType == "json.UnsupportedTypeError"
ErrUnmarshalType == "json.UnmarshalTypeError"
ErrSyntax == "json.SyntaxError"
ErrAddr == "net.AddrError"

\* ------------------------------------------------------------ small helpers
DigitStr == <<"0", "1", "2", "3", "4", "5", "6", "7", "8", "9">>
\* strconv.Itoa on the small numbers of the model
Itoa(n) == DigitStr[n + 1]
IsDigit(tok) == \E i \in 1..Len(DigitStr) : DigitStr[i] = tok
\* strconv.Atoi of a digit token
Atoi(tok) == (CHOOSE i \in 1..Len(DigitStr) : DigitStr[i] = tok) - 1

LenTok == <<"len0", "len32", "len64">>
\* the token naming a key or IV length
LenToken(n) == IF n = EncKeyLen THEN LenTok[2] ELSE IF n = SignKeyLen THEN LenTok[3] ELSE LenTok[1]
IVTok == <<"iv1", "iv2", "iv3", "iv4">>
IVToken(i) == IVTok[i]
IterTok == <<"iter1", "iter2">>
IterToken(i) == IterTok[i]

\* index of the first occurrence of tok in s, 0 when there is none
IndexOf(s, tok) ==
    IF \E i \in 1..Len(s) : s[i] = tok
    THEN CHOOSE i \in 1..Len(s) : s[i] = tok /\ \A j \in 1..(i - 1) : s[j] # tok
    ELSE 0
HasPrefix(s, p) == Len(s) >= Len(p) /\ SubSeq(s, 1, Len(p)) = p
Count(s, tok) == Cardinality({i \in 1..Len(s) : s[i] = tok})

\* ------------------------------------------------- external: key derivation
\* crypto.KeyGenerator.CacheGenerate(salt, keySize): PBKDF2 of the secret, a
\* deterministic function of (secret, iterations, salt, size).
CacheGenerate(kg, salt, keySize) ==
    <<"pbkdf2", kg.Secret, IterToken(kg.Iterations), salt, LenToken(keySize)>>

\* ------------------------------------------ external: crypto.MessageEncryptor
\* AES-CBC of msg under key with the given IV.
AESEncrypt(key, iv, msg) == <<"aes-cbc">> \o key \o <<iv>> \o msg \o <<"/aes-cbc">>
\* the HMAC digest of data under signKey
HMAC(signKey, data) == <<"hmac">> \o signKey \o data

\* MessageEncryptor.EncryptAndSign(value) with the IV the random source drew:
\* encrypts, then appends "--" and the digest of the encrypted message.
EncryptAndSign(me, value, iv) ==
    IF me.Key = << >> \/ me.SignKey = << >>
    THEN [s |-> << >>, err |-> ErrKeySize]
    ELSE LET data == AESEncrypt(me.Key, iv, value)
         IN [s |-> data \o <<"--">> \o HMAC(me.SignKey, data), err |-> nil]

\* MessageEncryptor.DecryptAndVerify(msg, &value): splits msg at the "--"
\* separator, verifies the digest, and only then decrypts.  decrypted tells
\* whether the cipher was run.
DecryptAndVerify(me, msg) ==
    LET i == IndexOf(msg, "--")
        data == SubSeq(msg, 1, i - 1)
        digest == SubSeq(msg, i + 1, Len(msg))
        head == <<"aes-cbc">> \o me.Key
    IN IF me.Key = << >> \/ me.SignKey = << >>
       THEN [value |-> << >>, err |-> ErrKeySize, decrypted |-> FALSE]
       ELSE IF Count(msg, "--") # 1 \/ digest # HMAC(me.SignKey, data)
       THEN [value |-> << >>, err |-> ErrInvalidSignature, decrypted |-> FALSE]
       ELSE IF ~(HasPrefix(data, head) /\ Len(data) >= Len(head) + 2
                 /\ data[Len(data)] = "/aes-cbc")
       THEN [value |-> << >>, err |-> ErrKeySize, decrypted |-> TRUE]
       ELSE [value |-> SubSeq(data, Len(head) + 2, Len(data) - 1), err |-> nil,
             decrypted |-> TRUE]

\* ------------------------------------------------------ application values
\* The values handed to the store.  t names the Go type: "sess" a session
\* struct {uid int; fp string}, "int" a bare integer (kept in uid), "chan" a
\* channel, which encoding/json cannot represent.
Fingerprints == {"fpA", "fpB"}
SessionValues == [t : {"sess"}, uid : 0..MaxUid, fp : Fingerprints]
IntValue == [t |-> "int", uid |-> MaxUid, fp |-> ""]
ChanValue == [t |-> "chan", uid |-> 0, fp |-> ""]
Values == SessionValues \cup {IntValue, ChanValue}
\* the zero session a caller passes to be filled in
ZeroSession == [t |-> "sess", uid |-> 0, fp |-> ""]

\* Session.Validate(req) of the application's session type: the session is
\* bound to the fingerprint of the client that it was issued to.
ErrInvalidSession == "ErrInvalidSession"
Validate(sess, req) == IF sess.fp = req.Fingerprint THEN nil ELSE ErrInvalidSession

\* ---------------------------------------------------- external: encoding/json
\* json.Marshal(v)
Marshal(v) ==
    CASE v.t = "sess" -> [b |-> <<"{", "uid", ":", Itoa(v.uid), ",", "fp", ":", v.fp, "}">>,
                          err |-> nil]
      [] v.t = "int" -> [b |-> <<Itoa(v.uid)>>, err |-> nil]
      [] OTHER -> [b |-> << >>, err |-> ErrUnsupportedType]

IsJSONObject(b) ==
    /\ Len(b) = 9
    /\ b[1] = "{" /\ b[2] = "uid" /\ b[3] = ":" /\ IsDigit(b[4]) /\ b[5] = ","
    /\ b[6] = "fp" /\ b[7] = ":" /\ b[9] = "}"
IsJSONNumber(b) == Len(b) = 1 /\ IsDigit(b[1])

\* json.Unmarshal(b, v): v is what the pointer refers to before the call; the
\* result holds what it refers to afterwards.
Unmarshal(b, v) ==
    CASE IsJSONObject(b) /\ v.t = "sess" ->
             [v |-> [t |-> "sess", uid |-> Atoi(b[4]), fp |-> b[8]], err |-> nil]
      [] IsJSONNumber(b) /\ v.t = "int" ->
             [v |-> [t |-> "int", uid |-> Atoi(b[1]), fp |-> ""], err |-> nil]
      [] IsJSONObject(b) \/ IsJSONNumber(b) -> [v |-> v, err |-> ErrUnmarshalType]
      [] OTHER -> [v |-> v, err |-> ErrSyntax]

\* --------------------------------------------------------------- http.Cookie
ZeroOptions ==
    [isNil |-> FALSE, Domain |-> "", Path |-> "", HTTPOnly |-> FALSE, Secure |-> FALSE,
     MaxAge |-> 0, Expires |-> 0, Partitioned |-> FALSE, SameSite |-> 0]
\* a nil *CookieOptions
NilOptions == [ZeroOptions EXCEPT !.isNil = TRUE]
ZeroCookie ==
    [Name |-> "", Value |-> << >>, Domain |-> "", Path |-> "", HttpOnly |-> FALSE,
     Secure |-> FALSE, MaxAge |-> 0, Expires |-> 0, Partitioned |-> FALSE, SameSite |-> 0]

\* time.Duration.Seconds() converted to int: durations are counted in half
\* seconds, and the conversion truncates toward zero.
Seconds(d) == IF d >= 0 THEN d \div 2 ELSE -((-d) \div 2)

\* http.SetCookie(w, cookie): adds one Set-Cookie header to the response.
SetCookie(w, cookie) == Append(w, cookie)

\* req.Cookie(name): the first cookie of that name sent with the request.
RequestCookie(req, name) ==
    LET hits == {i \in 1..Len(req.Cookies) : req.Cookies[i].Name = name}
    IN IF hits = {}
       THEN [cookie |-> ZeroCookie, isNil |-> TRUE, err |-> ErrNoCookie]
       ELSE LET i == CHOOSE k \in hits : \A j \in hits : k <= j
            IN [cookie |-> [ZeroCookie EXCEPT !.Name = name, !.Value = req.Cookies[i].Value],
                isNil |-> FALSE, err |-> nil]

\* ----------------------------------------------------------- CookieEncryptor
\* NewCookieEncryptor(secret, iterations)
NewCookieEncryptor(secret, iterations) ==
    LET kg == [Secret |-> secret, Iterations |-> iterations]
        key == CacheGenerate(kg, "encrypted cookie", EncKeyLen)
        signKey == CacheGenerate(kg, "signed encrypted cookie", SignKeyLen)
    IN [messageEncryptor |-> [Key |-> key, SignKey |-> signKey,
                              Serializer |-> "NullMsgSerializer"]]
\* &CookieEncryptor{}: the zero value, which holds no keys
ZeroCookieEncryptor ==
    [messageEncryptor |-> [Key |-> << >>, SignKey |-> << >>, Serializer |-> ""]]

\* Mutant of Encrypt: the encryptor keeps the IV of the call in its own state.
EncryptRemembersIV(ce, cookie, iv) ==
    LET r == EncryptAndSign(ce.messageEncryptor, cookie.Value, iv)
        kept == [ce EXCEPT !.messageEncryptor.Serializer = iv]
    IN IF r.err # nil
       THEN [ce |-> kept, cookie |-> cookie, err |-> r.err]
       ELSE [ce |-> kept, cookie |-> [cookie EXCEPT !.Value = r.s], err |-> nil]

\* CookieEncryptor.Encrypt(cookie); iv is what the random source draws.
Encrypt(ce, cookie, iv) ==
    LET r == EncryptAndSign(ce.messageEncryptor, cookie.Value, iv)
    IN IF r.err # nil
       THEN [ce |-> ce, cookie |-> cookie, err |-> r.err]
       ELSE [ce |-> ce, cookie |-> [cookie EXCEPT !.Value = r.s], err |-> nil]

\* Mutant of Decrypt: the decrypted value is never stored in the cookie.
DecryptKeepsCiphertext(ce, cookie) ==
    IF cookie.Value = << >>
    THEN [ce |-> ce, cookie |-> cookie, err |-> ErrNoCookie, calls |-> << >>]
    ELSE LET r == DecryptAndVerify(ce.messageEncryptor, cookie.Value)
         IN [ce |-> ce, cookie |-> cookie, err |-> r.err, calls |-> <<"DecryptAndVerify">>]

\* Mutant of Decrypt: the error of DecryptAndVerify is dropped.
DecryptIgnoresVerify(ce, cookie) ==
    IF cookie.Value = << >>
    THEN [ce |-> ce, cookie |-> cookie, err |-> ErrNoCookie, calls |-> << >>]
    ELSE LET r == DecryptAndVerify(ce.messageEncryptor, cookie.Value)
         IN [ce |-> ce, cookie |-> [cookie EXCEPT !.Value = r.value], err |-> nil,
             calls |-> <<"DecryptAndVerify">>]

\* Mutant of Decrypt: the empty value is not told apart.
DecryptNoEmptyCheck(ce, cookie) ==
    LET r == DecryptAndVerify(ce.messageEncryptor, cookie.Value)
    IN IF r.err # nil
       THEN [ce |-> ce, cookie |-> cookie, err |-> r.err, calls |-> <<"DecryptAndVerify">>]
       ELSE [ce |-> ce, cookie |-> [cookie EXCEPT !.Value = r.value], err |-> nil,
             calls |-> <<"DecryptAndVerify">>]

\* CookieEncryptor.Decrypt(cookie)
Decrypt(ce, cookie) ==
    IF cookie.Value = << >>
    THEN [ce |-> ce, cookie |-> cookie, err |-> ErrNoCookie, calls |-> << >>]
    ELSE LET r == DecryptAndVerify(ce.messageEncryptor, cookie.Value)
         IN IF r.err # nil
            THEN [ce |-> ce, cookie |-> cookie, err |-> r.err,
                  calls |-> <<"DecryptAndVerify">>]
            ELSE [ce |-> ce, cookie |-> [cookie EXCEPT !.Value = r.value], err |-> nil,
                  calls |-> <<"DecryptAndVerify">>]

\* --------------------------------------------------------- JSONCookieEncoder
\* JSONCookieEncoder.Encode(v, c)
Encode(v, c) ==
    LET r == Marshal(v)
    IN IF r.err # nil
       THEN [c |-> c, err |-> r.err]
       ELSE [c |-> [c EXCEPT !.Value = r.b], err |-> nil]

\* JSONCookieEncoder.Decode(v, c)
Decode(v, c) ==
    LET r == Unmarshal(c.Value, v)
    IN IF r.err # nil THEN [v |-> r.v, err |-> r.err] ELSE [v |-> r.v, err |-> nil]

\* ------------------------------------------------------- SecureCookieManager
\* Mutant of Set: the cookie is written on the response before it is encrypted.
SetEmitsBeforeEncrypt(cm, w, name, opts, v, iv) ==
    LET o == IF opts.isNil THEN ZeroOptions ELSE opts
        cookie == [Name |-> name, Value |-> << >>, Domain |-> o.Domain, Path |-> o.Path,
                   HttpOnly |-> o.HTTPOnly, Secure |-> o.Secure,
                   MaxAge |-> Seconds(o.MaxAge), Expires |-> o.Expires,
                   Partitioned |-> o.Partitioned, SameSite |-> o.SameSite]
        enc == Encode(v, cookie)
        cry == Encrypt(cm.Encryptor, enc.c, iv)
    IN IF enc.err # nil
       THEN [cm |-> cm, w |-> w, cookie |-> enc.c, err |-> enc.err, calls |-> <<"Encode">>]
       ELSE IF cry.err # nil
       THEN [cm |-> cm, w |-> SetCookie(w, enc.c), cookie |-> cry.cookie,
             err |-> cry.err, calls |-> <<"Encode", "SetCookie", "Encrypt">>]
       ELSE [cm |-> cm, w |-> SetCookie(w, enc.c), cookie |-> cry.cookie, err |-> nil,
             calls |-> <<"Encode", "SetCookie", "Encrypt">>]

\* SecureCookieManager.Set(w, name, opts, v)
Set(cm, w, name, opts, v, iv) ==
    LET o == IF opts.isNil THEN ZeroOptions ELSE opts
        cookie == [Name |-> name, Value |-> << >>, Domain |-> o.Domain, Path |-> o.Path,
                   HttpOnly |-> o.HTTPOnly, Secure |-> o.Secure,
                   MaxAge |-> Seconds(o.MaxAge), Expires |-> o.Expires,
                   Partitioned |-> o.Partitioned, SameSite |-> o.SameSite]
        enc == Encode(v, cookie)
        cry == Encrypt(cm.Encryptor, enc.c, iv)
    IN IF enc.err # nil
       THEN [cm |-> cm, w |-> w, cookie |-> enc.c, err |-> enc.err, calls |-> <<"Encode">>]
       ELSE IF cry.err # nil
       THEN [cm |-> [cm EXCEPT !.Encryptor = cry.ce], w |-> w, cookie |-> cry.cookie,
             err |-> cry.err, calls |-> <<"Encode", "Encrypt">>]
       ELSE [cm |-> [cm EXCEPT !.Encryptor = cry.ce], w |-> SetCookie(w, cry.cookie),
             cookie |-> cry.cookie, err |-> nil,
             calls |-> <<"Encode", "Encrypt", "SetCookie">>]

\* Mutant of Get: the error of Decrypt is not checked before decoding.
GetDecodesAnyway(cm, req, name, v) ==
    LET look == RequestCookie(req, name)
        dec == Decrypt(cm.Encryptor, look.cookie)
        out == Decode(v, dec.cookie)
    IN IF look.err # nil
       THEN [cm |-> cm, cookie |-> look.cookie, isNil |-> TRUE, v |-> v, err |-> look.err,
             calls |-> <<"Cookie">>]
       ELSE [cm |-> cm, cookie |-> dec.cookie, isNil |-> FALSE, v |-> out.v,
             err |-> out.err, calls |-> <<"Cookie", "Decrypt">> \o dec.calls \o <<"Decode">>]

\* SecureCookieManager.Get(req, name, v)
Get(cm, req, name, v) ==
    LET look == RequestCookie(req, name)
        dec == Decrypt(cm.Encryptor, look.cookie)
        out == Decode(v, dec.cookie)
    IN IF look.err # nil
       THEN [cm |-> cm, cookie |-> look.cookie, isNil |-> TRUE, v |-> v, err |-> look.err,
             calls |-> <<"Cookie">>]
       ELSE IF dec.err # nil
       THEN [cm |-> [cm EXCEPT !.Encryptor = dec.ce], cookie |-> dec.cookie,
             isNil |-> FALSE, v |-> v, err |-> dec.err,
             calls |-> <<"Cookie", "Decrypt">> \o dec.calls]
       ELSE [cm |-> [cm EXCEPT !.Encryptor = dec.ce], cookie |-> dec.cookie,
             isNil |-> FALSE, v |-> out.v, err |-> out.err,
             calls |-> <<"Cookie", "Decrypt">> \o dec.calls \o <<"Decode">>]

\* Mutant of Delete: MaxAge is copied from the options, as Set does.
DeleteCopiesMaxAge(cm, w, name, opts) ==
    LET o == IF opts.isNil THEN ZeroOptions ELSE opts
        cookie == [ZeroCookie EXCEPT !.Name = name, !.HttpOnly = o.HTTPOnly,
                                     !.Domain = o.Domain, !.Secure = o.Secure,
                                     !.Path = o.Path, !.MaxAge = Seconds(o.MaxAge)]
    IN [cm |-> cm, w |-> SetCookie(w, cookie), cookie |-> cookie, err |-> nil]

\* SecureCookieManager.Delete(w, name, opts)
Delete(cm, w, name, opts) ==
    LET o == IF opts.isNil THEN ZeroOptions ELSE opts
        cookie == [ZeroCookie EXCEPT !.Name = name, !.HttpOnly = o.HTTPOnly,
                                     !.Domain = o.Domain, !.Secure = o.Secure,
                                     !.Path = o.Path, !.MaxAge = -1]
    IN [cm |-> cm, w |-> SetCookie(w, cookie), cookie |-> cookie, err |-> nil]

\* ------------------------------------------------------ CookieSessionManager
\* NewCookieSessionManager(cm, name, domain); the manager is held by reference
NewCookieSessionManager(name, domain) == [name |-> name, domain |-> domain]

\* strings.ContainsRune(host, ':')
ContainsColon(host) == IndexOf(host, ":") # 0
LastIndexOf(s, tok) ==
    IF \E i \in 1..Len(s) : s[i] = tok
    THEN CHOOSE i \in 1..Len(s) : s[i] = tok /\ \A j \in (i + 1)..Len(s) : s[j] # tok
    ELSE 0

\* net.SplitHostPort(hostport)
SplitHostPort(hp) ==
    LET i == LastIndexOf(hp, ":")
        end == IndexOf(hp, "]")
        bad == [host |-> << >>, port |-> << >>, err |-> ErrAddr]
        bracket == Len(hp) > 0 /\ hp[1] = "["
        host == IF bracket THEN SubSeq(hp, 2, end - 1) ELSE SubSeq(hp, 1, i - 1)
        j == IF bracket THEN 2 ELSE 1
        k == IF bracket THEN end + 1 ELSE 1
    IN IF i = 0 THEN bad
       ELSE IF bracket /\ (end = 0 \/ end + 1 # i) THEN bad
       ELSE IF ~bracket /\ IndexOf(host, ":") # 0 THEN bad
       ELSE IF IndexOf(SubSeq(hp, j, Len(hp)), "[") # 0 THEN bad
       ELSE IF IndexOf(SubSeq(hp, k, Len(hp)), "]") # 0 THEN bad
       ELSE [host |-> host, port |-> SubSeq(hp, i + 1, Len(hp)), err |-> nil]

Localhost == <<"localhost">>
Loopback4 == <<"127.0.0.1">>
Loopback6 == <<":", ":", "1">>
IsLoopback(host) == host = Localhost \/ host = Loopback4 \/ host = Loopback6

\* CookieSessionManager.Current(req, sess)
Current(sm, cm, req, sess) ==
    LET r == Get(cm, req, sm.name, sess)
    IN [cm |-> r.cm, sess |-> r.v, err |-> r.err, calls |-> r.calls]

\* Mutant of Update: the error of SplitHostPort is dropped.
UpdateIgnoresSplitError(sm, cm, w, req, sess, iv) ==
    LET split == SplitHostPort(req.Host)
        host == IF ContainsColon(req.Host) THEN split.host ELSE req.Host
        opts == IF IsLoopback(host)
                THEN [ZeroOptions EXCEPT !.Path = "/"]
                ELSE [ZeroOptions EXCEPT !.Path = "/", !.Domain = sm.domain, !.Secure = TRUE]
        r == Set(cm, w, sm.name, opts, sess, iv)
    IN [cm |-> r.cm, w |-> r.w, err |-> r.err, calls |-> r.calls]

\* CookieSessionManager.Update(w, req, sess)
Update(sm, cm, w, req, sess, iv) ==
    LET split == SplitHostPort(req.Host)
        host == IF ContainsColon(req.Host) THEN split.host ELSE req.Host
        opts == IF IsLoopback(host)
                THEN [ZeroOptions EXCEPT !.Path = "/"]
                ELSE [ZeroOptions EXCEPT !.Path = "/", !.Domain = sm.domain, !.Secure = TRUE]
        r == Set(cm, w, sm.name, opts, sess, iv)
    IN IF ContainsColon(req.Host) /\ split.err # nil
       THEN [cm |-> cm, w |-> w, err |-> split.err, calls |-> << >>]
       ELSE [cm |-> r.cm, w |-> r.w, err |-> r.err, calls |-> r.calls]

\* ------------------------------------------------------------ configuration
Secret == "secret1"
ForeignSecret == "secret2"
SessionName == "sess"
SessionDomain == "example.com"
Names == {SessionName, "other"}
IVs == {IVToken(i) : i \in 1..MaxIV}

\* A manager holding the derived keys, and one built around &CookieEncryptor{}.
KeyedManager ==
    [Encryptor |-> NewCookieEncryptor(Secret, Iterations), Encoder |-> "JSONCookieEncoder"]
ZeroManager == [Encryptor |-> ZeroCookieEncryptor, Encoder |-> "JSONCookieEncoder"]

CustomOptions ==
    [isNil |-> FALSE, Domain |-> "static.example.com", Path |-> "/app", HTTPOnly |-> TRUE,
     Secure |-> TRUE, MaxAge |-> 3, Expires |-> 1, Partitioned |-> TRUE, SameSite |-> 1]
OptionChoices == {NilOptions, CustomOptions, [ZeroOptions EXCEPT !.Path = "/", !.MaxAge = -3]}

Hosts ==
    { <<"localhost">>, <<"localhost", ":", "8080">>, <<"127.0.0.1">>,
      <<"127.0.0.1", ":", "8080">>, <<"[", ":", ":", "1", "]", ":", "8080">>,
      <<":", ":", "1">>, <<"[", ":", ":", "1", "]">>,
      <<"app.example.com">>, <<"app.example.com", ":", "443">> }

\* What another handler may already have written on the response.
PriorCookie == [ZeroCookie EXCEPT !.Name = "theme", !.Value = <<"dark">>, !.Path = "/"]
PriorResponses == { << >>, <<PriorCookie>> }

NoRequest == [Host |-> << >>, Fingerprint |-> "", Cookies |-> << >>]
UnrelatedCookie == [Name |-> "lang", Value |-> <<"en">>]

\* ------------------------------------------------------------------- client
\* What a client can put in a cookie without the server's keys, given the
\* envelope e it holds (<< >> when it holds none): e with a part of the
\* encrypted data or of the digest changed, e cut at the separator, the data
\* of a foreign envelope under e's digest, envelopes made with another
\* secret, unencrypted JSON, and the empty string.
ForeignEncryptor == NewCookieEncryptor(ForeignSecret, Iterations)
ForeignEnvelopes ==
    {EncryptAndSign(ForeignEncryptor.messageEncryptor, Marshal(v).b, iv).s :
        v \in {x \in SessionValues : x.uid = 0}, iv \in IVs}
FlipData(e) == [e EXCEPT ![IndexOf(e, "--") - 2] = "flipped"]
FlipDigest(e) == [e EXCEPT ![Len(e)] = "flipped"]
CutAtSeparator(e) == SubSeq(e, 1, IndexOf(e, "--") - 1)
Splice(f, e) == SubSeq(f, 1, IndexOf(f, "--")) \o SubSeq(e, IndexOf(e, "--") + 1, Len(e))
Tampered(e) ==
    ForeignEnvelopes
    \cup {Marshal(v).b : v \in {x \in SessionValues : x.uid = MaxUid}}
    \cup {<< >>}
    \cup (IF e = << >> THEN {}
          ELSE {FlipData(e), FlipDigest(e), CutAtSeparator(e)}
               \cup {Splice(f, e) : f \in ForeignEnvelopes})

\* ------------------------------------------------------------------- state
VARIABLES
    cm,     \* the SecureCookieManager (with its encryptor and encoder)
    sm,     \* the CookieSessionManager
    jar,    \* the client's cookie store: the session cookies it holds
    w,      \* the Set-Cookie headers of the response being written
    sess,   \* the value (session object) the caller passed, after the call
    last,   \* the last call: its arguments, what it returned, what it called
    pc,     \* per concurrent call: the step it is at
    loc     \* per concurrent call: its arguments and locals

vars == <<cm, sm, jar, w, sess, last, pc, loc>>

NoCall ==
    [op |-> "none", name |-> "", opts |-> NilOptions, v0 |-> ZeroSession, iv |-> "",
     w0 |-> << >>, req |-> NoRequest, honest |-> FALSE, origin |-> ZeroSession,
     err |-> nil, cookie |-> ZeroCookie, isNil |-> TRUE, calls |-> << >>]

Calls == {"c1", "c2"}
Idle == [op |-> "none", name |-> "", opts |-> NilOptions, v0 |-> ZeroSession,
         v |-> ZeroSession, iv |-> "", req |-> NoRequest, w0 |-> << >>, w |-> << >>,
         cookie |-> ZeroCookie, err |-> nil]

Init ==
    /\ cm \in {KeyedManager, ZeroManager}
    /\ sm = NewCookieSessionManager(SessionName, SessionDomain)
    /\ jar = << >>
    /\ w = << >>
    /\ sess = ZeroSession
    /\ last = NoCall
    /\ pc = [c \in Calls |-> "idle"]
    /\ loc = [c \in Calls |-> Idle]

\* The requests a client holding `jar` can send: with no cookie, with the
\* cookie it was sent (alone or after an unrelated one), or with a cookie of
\* its own making.
RequestCookies ==
    LET held == IF jar = << >> THEN << >> ELSE jar[1].Value
        n == IF jar = << >> THEN SessionName ELSE jar[1].Name
    IN {[cookies |-> << >>, honest |-> FALSE, origin |-> ZeroSession]}
       \cup (IF jar = << >> THEN {}
             ELSE {[cookies |-> pre \o <<[Name |-> n, Value |-> held]>>, honest |-> TRUE,
                    origin |-> jar[1].origin] : pre \in {<< >>, <<UnrelatedCookie>>}})
       \cup {[cookies |-> <<[Name |-> n, Value |-> t]>>, honest |-> FALSE,
              origin |-> ZeroSession] : t \in Tampered(held)}

\* The values a caller passes to be filled in.
Outputs == {ZeroSession, [t |-> "sess", uid |-> MaxUid, fp |-> "fpB"],
            [t |-> "int", uid |-> 0, fp |-> ""]}

\* A handler calls cm.Set(w, name, opts, v).
DoSet ==
    /\ last.op = "none"
    /\ \E name \in Names, opts \in OptionChoices, v \in Values, iv \in IVs, w0 \in PriorResponses :
        LET r == Set(cm, w0, name, opts, v, iv)
        IN /\ cm' = r.cm
           /\ w' = r.w
           /\ sess' = v
           /\ last' = [NoCall EXCEPT !.op = "Set", !.name = name, !.opts = opts, !.v0 = v,
                                     !.iv = iv, !.w0 = w0, !.err = r.err,
                                     !.cookie = r.cookie, !.isNil = FALSE,
                                     !.calls = r.calls]
           /\ UNCHANGED <<sm, jar, pc, loc>>

\* A handler calls cm.Get(req, name, v).
DoGet ==
    /\ last.op = "none"
    /\ \E name \in Names, v \in Outputs, rc \in RequestCookies, w0 \in PriorResponses :
        LET req == [Host |-> <<"app.example.com">>, Fingerprint |-> "fpA",
                    Cookies |-> rc.cookies]
            r == Get(cm, req, name, v)
        IN /\ cm' = r.cm
           /\ w' = w0
           /\ sess' = r.v
           /\ last' = [NoCall EXCEPT !.op = "Get", !.name = name, !.v0 = v, !.w0 = w0,
                                     !.req = req, !.honest = rc.honest,
                                     !.origin = rc.origin, !.err = r.err,
                                     !.cookie = r.cookie, !.isNil = r.isNil,
                                     !.calls = r.calls]
           /\ UNCHANGED <<sm, jar, pc, loc>>

\* A handler calls cm.Delete(w, name, opts).
DoDelete ==
    /\ last.op = "none"
    /\ \E name \in Names, opts \in OptionChoices, w0 \in PriorResponses :
        LET r == Delete(cm, w0, name, opts)
        IN /\ cm' = r.cm
           /\ w' = r.w
           /\ sess' = sess
           /\ last' = [NoCall EXCEPT !.op = "Delete", !.name = name, !.opts = opts,
                                     !.v0 = sess, !.w0 = w0, !.err = r.err,
                                     !.cookie = r.cookie, !.isNil = FALSE]
           /\ UNCHANGED <<sm, jar, pc, loc>>

\* A handler calls sm.Current(req, sess).
DoCurrent ==
    /\ last.op = "none"
    /\ \E v \in Outputs, rc \in RequestCookies, fp \in Fingerprints :
        LET req == [Host |-> <<"app.example.com">>, Fingerprint |-> fp,
                    Cookies |-> rc.cookies]
            r == Current(sm, cm, req, v)
        IN /\ v.t = "sess"
           /\ cm' = r.cm
           /\ w' = << >>
           /\ sess' = r.sess
           /\ last' = [NoCall EXCEPT !.op = "Current", !.name = sm.name, !.v0 = v,
                                     !.req = req, !.honest = rc.honest,
                                     !.origin = rc.origin, !.err = r.err,
                                     !.calls = r.calls]
           /\ UNCHANGED <<sm, jar, pc, loc>>

\* A handler calls sm.Update(w, req, sess).
DoUpdate ==
    /\ last.op = "none"
    /\ \E host \in Hosts, v \in Values, iv \in IVs, w0 \in PriorResponses :
        LET req == [Host |-> host, Fingerprint |-> v.fp, Cookies |-> << >>]
            r == Update(sm, cm, w0, req, v, iv)
        IN /\ v.t # "int"
           /\ cm' = r.cm
           /\ w' = r.w
           /\ sess' = v
           /\ last' = [NoCall EXCEPT !.op = "Update", !.name = sm.name, !.v0 = v, !.iv = iv,
                                     !.w0 = w0, !.req = req, !.err = r.err,
                                     !.cookie = IF Len(r.w) > Len(w0) THEN r.w[Len(r.w)]
                                                ELSE ZeroCookie,
                                     !.isNil = (Len(r.w) = Len(w0)),
                                     !.calls = r.calls]
           /\ UNCHANGED <<sm, jar, pc, loc>>

\* The response reaches the client, which stores the cookie the call set, if
\* it set one (or discards the one it holds when told that it has expired).
Deliver ==
    /\ last.op # "none"
    /\ jar' = IF Len(w) = Len(last.w0) THEN jar
              ELSE LET c == w[Len(w)]
                   IN IF c.MaxAge < 0 \/ c.Value = << >>
                      THEN << >>
                      ELSE <<[Name |-> c.Name, Value |-> c.Value, origin |-> last.v0]>>
    /\ w' = << >>
    /\ sess' = ZeroSession
    /\ last' = NoCall
    /\ UNCHANGED <<cm, sm, pc, loc>>

Next == DoSet \/ DoGet \/ DoDelete \/ DoCurrent \/ DoUpdate \/ Deliver

Spec == Init /\ [][Next]_vars

\* ---------------------------------------------------- concurrent requests
\* Two handlers run at once on the same managers, each with a request, a
\* response and a session object of its own, and each advancing one call of
\* its method at a time.

\* the session the concurrent requests carry, and the cookie that holds it
ConcSession == [t |-> "sess", uid |-> MaxUid, fp |-> "fpA"]
ConcCookieValues ==
    LET e == {EncryptAndSign(KeyedManager.Encryptor.messageEncryptor,
                             Marshal(ConcSession).b, iv).s : iv \in IVs}
    IN e \cup {FlipDigest(x) : x \in e} \cup {<< >>}
ConcRequests ==
    {[Host |-> h, Fingerprint |-> "fpA", Cookies |-> cs] :
        h \in { <<"localhost", ":", "8080">>, <<"app.example.com">>, <<":", ":", "1">> },
        cs \in {<< >>} \cup {<<[Name |-> SessionName, Value |-> x]>> : x \in ConcCookieValues}}

InitConc ==
    /\ cm = KeyedManager
    /\ sm = NewCookieSessionManager(SessionName, SessionDomain)
    /\ jar = << >>
    /\ w = << >>
    /\ sess = ZeroSession
    /\ last = NoCall
    /\ pc = [c \in Calls |-> "idle"]
    /\ loc = [c \in Calls |-> Idle]

FirstStep(op) ==
    CASE op = "Set" -> "encode"
      [] op = "Get" -> "lookup"
      [] op = "Current" -> "lookup"
      [] op = "Update" -> "route"
      [] OTHER -> "delete"

\* A handler enters Set, Get, Delete, Current or Update.
Begin(c) ==
    /\ pc[c] = "idle"
    /\ \E op \in {"Set", "Get", "Delete", "Current", "Update"}, req \in ConcRequests,
          v \in {ConcSession, ChanValue}, iv \in IVs, opts \in {NilOptions, CustomOptions},
          w0 \in PriorResponses :
          /\ op \in {"Get", "Current", "Update"} \/ req.Host = <<"app.example.com">>
          /\ op \in {"Get", "Current"} \/ req.Cookies = << >>
          /\ op \in {"Set", "Update"} \/ (v = ConcSession /\ iv = IVToken(1))
          /\ op \in {"Set", "Delete"} \/ opts = NilOptions
          /\ op \in {"Set", "Update", "Delete"} \/ w0 = << >>
          /\ loc' = [loc EXCEPT ![c] =
                        [Idle EXCEPT !.op = op,
                                     !.name = SessionName,
                                     !.opts = opts, !.iv = iv, !.req = req, !.w0 = w0,
                                     !.w = w0,
                                     !.v0 = IF op \in {"Get", "Current"} THEN ZeroSession ELSE v,
                                     !.v = IF op \in {"Get", "Current"} THEN ZeroSession ELSE v]]
          /\ pc' = [pc EXCEPT ![c] = FirstStep(op)]
    /\ UNCHANGED <<cm, sm, jar, w, sess, last>>

\* Update, lines 46-57: the host decides the cookie's options.
Route(c) ==
    /\ pc[c] = "route"
    /\ LET l == loc[c]
           split == SplitHostPort(l.req.Host)
           host == IF ContainsColon(l.req.Host) THEN split.host ELSE l.req.Host
       IN IF ContainsColon(l.req.Host) /\ split.err # nil
          THEN /\ loc' = [loc EXCEPT ![c].err = split.err]
               /\ pc' = [pc EXCEPT ![c] = "done"]
          ELSE /\ loc' = [loc EXCEPT ![c].name = sm.name,
                                     ![c].opts =
                                         IF IsLoopback(host)
                                         THEN [ZeroOptions EXCEPT !.Path = "/"]
                                         ELSE [ZeroOptions EXCEPT !.Path = "/",
                                                                  !.Domain = sm.domain,
                                                                  !.Secure = TRUE]]
               /\ pc' = [pc EXCEPT ![c] = "encode"]
    /\ UNCHANGED <<cm, sm, jar, w, sess, last>>

\* Set, lines 109-127: the cookie is built and the value encoded into it.
StepEncode(c) ==
    /\ pc[c] = "encode"
    /\ LET l == loc[c]
           o == IF l.opts.isNil THEN ZeroOptions ELSE l.opts
           cookie == [Name |-> l.name, Value |-> << >>, Domain |-> o.Domain,
                      Path |-> o.Path, HttpOnly |-> o.HTTPOnly, Secure |-> o.Secure,
                      MaxAge |-> Seconds(o.MaxAge), Expires |-> o.Expires,
                      Partitioned |-> o.Partitioned, SameSite |-> o.SameSite]
           r == Encode(l.v, cookie)
       IN /\ loc' = [loc EXCEPT ![c].cookie = r.c, ![c].err = r.err]
          /\ pc' = [pc EXCEPT ![c] = IF r.err # nil THEN "done" ELSE "encrypt"]
    /\ UNCHANGED <<cm, sm, jar, w, sess, last>>

\* Set, lines 129-131: the cookie is encrypted by the shared encryptor.
StepEncrypt(c) ==
    /\ pc[c] = "encrypt"
    /\ LET r == Encrypt(cm.Encryptor, loc[c].cookie, loc[c].iv)
       IN /\ cm' = [cm EXCEPT !.Encryptor = r.ce]
          /\ loc' = [loc EXCEPT ![c].cookie = r.cookie, ![c].err = r.err]
          /\ pc' = [pc EXCEPT ![c] = IF r.err # nil THEN "done" ELSE "emit"]
    /\ UNCHANGED <<sm, jar, w, sess, last>>

\* Set, lines 133-134: the cookie is written on the call's own response.
StepEmit(c) ==
    /\ pc[c] = "emit"
    /\ loc' = [loc EXCEPT ![c].w = SetCookie(loc[c].w, loc[c].cookie)]
    /\ pc' = [pc EXCEPT ![c] = "done"]
    /\ UNCHANGED <<cm, sm, jar, w, sess, last>>

\* Get, lines 140-143: the cookie is looked up on the call's own request.
StepLookup(c) ==
    /\ pc[c] = "lookup"
    /\ LET r == RequestCookie(loc[c].req, loc[c].name)
       IN /\ loc' = [loc EXCEPT ![c].cookie = r.cookie, ![c].err = r.err]
          /\ pc' = [pc EXCEPT ![c] = IF r.err # nil THEN "done" ELSE "decrypt"]
    /\ UNCHANGED <<cm, sm, jar, w, sess, last>>

\* Get, lines 145-147: the cookie is decrypted by the shared encryptor.
StepDecrypt(c) ==
    /\ pc[c] = "decrypt"
    /\ LET r == Decrypt(cm.Encryptor, loc[c].cookie)
       IN /\ cm' = [cm EXCEPT !.Encryptor = r.ce]
          /\ loc' = [loc EXCEPT ![c].cookie = r.cookie, ![c].err = r.err]
          /\ pc' = [pc EXCEPT ![c] = IF r.err # nil THEN "done" ELSE "decode"]
    /\ UNCHANGED <<sm, jar, w, sess, last>>

\* Get, lines 149-153: the value is decoded into the call's own output.
StepDecode(c) ==
    /\ pc[c] = "decode"
    /\ LET r == Decode(loc[c].v, loc[c].cookie)
       IN loc' = [loc EXCEPT ![c].v = r.v, ![c].err = r.err]
    /\ pc' = [pc EXCEPT ![c] = "done"]
    /\ UNCHANGED <<cm, sm, jar, w, sess, last>>

\* Delete, lines 157-173.
StepDelete(c) ==
    /\ pc[c] = "delete"
    /\ LET r == Delete(cm, loc[c].w, loc[c].name, loc[c].opts)
       IN /\ cm' = r.cm
          /\ loc' = [loc EXCEPT ![c].w = r.w, ![c].cookie = r.cookie, ![c].err = r.err]
    /\ pc' = [pc EXCEPT ![c] = "done"]
    /\ UNCHANGED <<sm, jar, w, sess, last>>

\* The handler has returned; its request is over.
Return(c) ==
    /\ pc[c] = "done"
    /\ pc' = [pc EXCEPT ![c] = "idle"]
    /\ loc' = [loc EXCEPT ![c] = Idle]
    /\ UNCHANGED <<cm, sm, jar, w, sess, last>>

NextConc ==
    \E c \in Calls :
        \/ Begin(c)
        \/ Route(c)
        \/ StepEncode(c)
        \/ StepEncrypt(c)
        \/ StepEmit(c)
        \/ StepLookup(c)
        \/ StepDecrypt(c)
        \/ StepDecode(c)
        \/ StepDelete(c)
        \/ Return(c)

SpecConc == InitConc /\ [][NextConc]_vars

\* ---------------------------------------------------------------- properties
IsGetLike == last.op \in {"Get", "Current"}
\* the cookie the last Get or Current looked up on its request
Looked == RequestCookie(last.req, last.name)
Called(step) == \E i \in 1..Len(last.calls) : last.calls[i] = step
Emitted == Len(w) = Len(last.w0) + 1 /\ SubSeq(w, 1, Len(last.w0)) = last.w0
\* the envelopes the manager's own keys can have produced
Plaintexts == {Marshal(v).b : v \in Values}
Produced(val) ==
    \E pt \in Plaintexts, iv \in IVs :
        EncryptAndSign(cm.Encryptor.messageEncryptor, pt, iv) = [s |-> val, err |-> nil]
\* the host of a request with any port removed: what precedes the port, or
\* the address inside the brackets of an IPv6 literal that has no port
HostOnly(hp) ==
    IF SplitHostPort(hp).err = nil THEN SplitHostPort(hp).host
    ELSE IF Len(hp) >= 2 /\ hp[1] = "[" /\ hp[Len(hp)] = "]" THEN SubSeq(hp, 2, Len(hp) - 1)
    ELSE hp
Parsable(hp) == ~ContainsColon(hp) \/ SplitHostPort(hp).err = nil

\* C1: whenever Current found, decrypted and decoded the session cookie, it
\* returns success only if the session's Validate accepts the request: a
\* session that Validate rejects makes Current return an error.
C1_CurrentValidates ==
    (last.op = "Current" /\ Called("Decode") /\ Validate(sess, last.req) # nil)
        => last.err # nil

\* C2: when the cookie a successful Set emitted comes back unchanged, Get of
\* that name succeeds, its output equals the value that was Set, and the
\* cookie it returns holds the plaintext Set had encoded.
C2_RoundTrip ==
    (last.op = "Get" /\ last.honest /\ Looked.err = nil
        /\ last.v0.t = last.origin.t)
        => /\ last.err = nil
           /\ sess = last.origin
           /\ ~last.isNil
           /\ last.cookie.Value = Marshal(last.origin).b
C2_Witness ==
    /\ last.op = "Get" /\ last.honest /\ last.err = nil
    /\ Len(last.req.Cookies) = 2
    /\ last.origin.uid = MaxUid /\ last.origin.fp = "fpA" /\ last.v0 = ZeroSession
    /\ sess = last.origin

\* C3: a cookie value that the manager's keys did not produce makes Get and
\* Current fail, is never handed to the decoder, and leaves the output alone.
C3_TamperDetected ==
    (IsGetLike /\ Looked.err = nil /\ ~Produced(Looked.cookie.Value))
        => /\ last.err # nil
           /\ ~Called("Decode")
           /\ sess = last.v0
C3_Witness ==
    /\ last.op = "Get" /\ jar # << >> /\ Looked.err = nil
    /\ Looked.cookie.Value = FlipData(jar[1].Value)
    /\ last.err = ErrInvalidSignature
    /\ Called("DecryptAndVerify")

\* C4: for every request host (and every session that Set can encode and
\* encrypt) Update emits the session cookie under the manager's name with
\* Path "/": with Secure=false and Domain "" when the host with any port
\* removed is a loopback host, with Secure=true and the configured domain
\* otherwise.
C4_PolicyForEveryHost ==
    (last.op = "Update" /\ Marshal(last.v0).err = nil /\ cm = KeyedManager)
        => /\ Emitted
           /\ LET c == w[Len(w)]
              IN /\ c.Name = sm.name /\ c.Path = "/"
                 /\ IF IsLoopback(HostOnly(last.req.Host))
                    THEN ~c.Secure /\ c.Domain = ""
                    ELSE c.Secure /\ c.Domain = sm.domain
\* What Update does hold to: the policy above for the hosts that hold no ':'
\* or that split into host and port.
PolicyForParsableHost ==
    (last.op = "Update" /\ Parsable(last.req.Host) /\ Marshal(last.v0).err = nil
        /\ cm = KeyedManager)
        => /\ last.err = nil
           /\ Emitted
           /\ LET c == w[Len(w)]
              IN /\ c.Name = sm.name /\ c.Path = "/"
                 /\ IF IsLoopback(HostOnly(last.req.Host))
                    THEN ~c.Secure /\ c.Domain = ""
                    ELSE c.Secure /\ c.Domain = sm.domain
PolicyForParsableHost_Reached ==
    /\ last.op = "Update" /\ last.err = nil
    /\ last.req.Host = <<"[", ":", ":", "1", "]", ":", "8080">>
    /\ Emitted /\ ~w[Len(w)].Secure /\ w[Len(w)].Domain = ""

\* C5: a Set that fails leaves the response's headers as they were; a header
\* is added only when encoding and encryption both succeeded, and then it
\* carries the envelope, never the encoded plaintext.
C5_SetAllOrNothing ==
    last.op = "Set"
        => /\ last.err # nil => w = last.w0
           /\ w # last.w0 =>
                 /\ last.err = nil
                 /\ Emitted
                 /\ w[Len(w)] = last.cookie
                 /\ Marshal(last.v0).err = nil
                 /\ last.cookie.Value # Marshal(last.v0).b
                 /\ last.cookie.Value =
                       EncryptAndSign(cm.Encryptor.messageEncryptor,
                                      Marshal(last.v0).b, last.iv).s
           /\ last.err = nil => w # last.w0
C5_Witness ==
    /\ last.op = "Set" /\ last.err = ErrKeySize
    /\ last.calls = <<"Encode", "Encrypt">>
    /\ last.w0 = <<PriorCookie>> /\ w = last.w0

\* C6: Get and Current on a request without the cookie return ErrNoCookie and
\* no cookie; an empty cookie value is reported as ErrNoCookie too, without
\* the verifier being called.
C6_AbsentAndEmpty ==
    IsGetLike
        => /\ Looked.err # nil =>
                 /\ last.err = ErrNoCookie
                 /\ last.isNil
                 /\ last.calls = <<"Cookie">>
           /\ (Looked.err = nil /\ Looked.cookie.Value = << >>) =>
                 /\ last.err = ErrNoCookie
                 /\ ~Called("DecryptAndVerify")
                 /\ ~Called("Decode")
C6_Witness ==
    /\ last.op = "Get" /\ Looked.err = nil /\ Looked.cookie.Value = << >>
    /\ last.err = ErrNoCookie /\ last.calls = <<"Cookie", "Decrypt">>

\* C7: Delete returns no error and adds a cookie of the given name with an
\* empty value, MaxAge -1 and the Domain, Path, HttpOnly and Secure of the
\* options (the zero options for nil), whatever was set before.
C7_DeleteExpires ==
    last.op = "Delete"
        => /\ last.err = nil
           /\ Emitted
           /\ w[Len(w)] = last.cookie
           /\ LET o == IF last.opts.isNil THEN ZeroOptions ELSE last.opts
              IN last.cookie = [ZeroCookie EXCEPT !.Name = last.name, !.MaxAge = -1,
                                                  !.Domain = o.Domain, !.Path = o.Path,
                                                  !.HttpOnly = o.HTTPOnly,
                                                  !.Secure = o.Secure]
C7_Witness ==
    /\ last.op = "Delete" /\ last.opts = CustomOptions
    /\ jar # << >> /\ jar[1].Name = last.name
    /\ last.w0 = <<PriorCookie>>
    /\ last.cookie.MaxAge = -1 /\ last.cookie.Value = << >>

\* C9: Get looks up, then decrypts, then decodes, and stops at the first
\* failure: without a decrypted cookie the decoder is not called and the
\* output is left as it was; a failed Decrypt or Encrypt leaves the cookie's
\* Value as it was.
C9_GetStopsAtFirstFailure ==
    /\ IsGetLike =>
          /\ last.calls \in { <<"Cookie">>, <<"Cookie", "Decrypt">>,
                              <<"Cookie", "Decrypt", "DecryptAndVerify">>,
                              <<"Cookie", "Decrypt", "DecryptAndVerify", "Decode">> }
          /\ Called("Decode") <=>
                 (Looked.err = nil /\ Decrypt(cm.Encryptor, Looked.cookie).err = nil)
          /\ ~Called("Decode") => (last.err # nil /\ sess = last.v0)
          /\ (last.op = "Get" /\ Called("Decrypt") /\ ~Called("Decode"))
                 => last.cookie = Looked.cookie
    /\ (last.op = "Set" /\ last.calls = <<"Encode", "Encrypt">>)
          => (last.err # nil /\ last.cookie.Value = Marshal(last.v0).b)
C9_Witness ==
    /\ last.op = "Current" /\ last.v0.uid = MaxUid /\ sess = last.v0
    /\ last.calls = <<"Cookie", "Decrypt", "DecryptAndVerify">>
    /\ last.err = ErrInvalidSignature

\* C10: a host that holds a ':' and does not split into host and port makes
\* Update return the split error with nothing encoded, encrypted or emitted;
\* a host without ':' is compared whole with the loopback names.
C10_UnparsableHost ==
    last.op = "Update"
        => /\ ~Parsable(last.req.Host) =>
                 /\ last.err = ErrAddr
                 /\ last.calls = << >>
                 /\ w = last.w0
           /\ (~ContainsColon(last.req.Host) /\ last.err = nil) =>
                 /\ Emitted
                 /\ w[Len(w)].Secure = ~IsLoopback(last.req.Host)
C10_Witness ==
    /\ last.op = "Update" /\ last.req.Host = <<":", ":", "1">>
    /\ last.err = ErrAddr /\ last.w0 = <<PriorCookie>> /\ w = last.w0
    /\ Marshal(last.v0).err = nil /\ cm = KeyedManager

\* C8: the calls never write to the managers, and a call that ran interleaved
\* with another returns and writes on its own response exactly what it does
\* when it runs alone on the managers as constructed.
Alone(l) ==
    CASE l.op = "Set" ->
             LET r == Set(KeyedManager, l.w0, l.name, l.opts, l.v0, l.iv)
             IN [err |-> r.err, w |-> r.w, v |-> l.v0]
      [] l.op = "Get" ->
             LET r == Get(KeyedManager, l.req, l.name, l.v0)
             IN [err |-> r.err, w |-> l.w0, v |-> r.v]
      [] l.op = "Delete" ->
             LET r == Delete(KeyedManager, l.w0, l.name, l.opts)
             IN [err |-> r.err, w |-> r.w, v |-> l.v0]
      [] l.op = "Current" ->
             LET r == Current(NewCookieSessionManager(SessionName, SessionDomain),
                              KeyedManager, l.req, l.v0)
             IN [err |-> r.err, w |-> l.w0, v |-> r.sess]
      [] OTHER ->
             LET r == Update(NewCookieSessionManager(SessionName, SessionDomain),
                             KeyedManager, l.w0, l.req, l.v0, l.iv)
             IN [err |-> r.err, w |-> r.w, v |-> l.v0]
C8_RequestsIndependent ==
    /\ cm = KeyedManager
    /\ sm = NewCookieSessionManager(SessionName, SessionDomain)
    /\ \A c \in Calls :
          pc[c] = "done" =>
              [err |-> loc[c].err, w |-> loc[c].w, v |-> loc[c].v] = Alone(loc[c])
C8_Witness ==
    /\ pc["c1"] = "done" /\ loc["c1"].op = "Update" /\ loc["c1"].err = nil
    /\ Len(loc["c1"].w) = 2
    /\ pc["c2"] = "decode" /\ loc["c2"].op = "Current"
====
